---- MODULE Spec2Model ----
(***************************************************************************)
(* Batch mode of the ScrapingBee CLI: the scrape command's batch path      *)
(* (cli.py) and the batch engine it drives (batch.py): input loading,      *)
(* usage fetching, run validation, concurrency resolution, run_batch over  *)
(* a ThreadPoolExecutor, and the result writer.                            *)
(***************************************************************************)
EXTENDS Integers, Sequences, FiniteSets, TLC

\* ------------------------------------------------------------------ bounds
\* Longest input file (in lines) and so the largest number of inputs.
MaxInputs == 3
\* Largest plan limit (usage.max_concurrency) the usage API answers with.
MaxPlan == 2
\* Largest credit balance (usage.credits) the usage API answers with.
MaxCredits == 2

\* How long the clock is followed, in ticks, and the ticks in one second.
MaxTicks == 8
TicksPerSecond == 2
\* How many batch runs share the working directory.
MaxRuns == 2

\* ------------------------------------------------------------ environment
\* The remote side: one URL that is served, one that is refused with an
\* HTTP error and a diagnostic body, one whose request raises in transport.
Urls == {"ok", "denied", "down"}
Blank == ""
None == "None"

Min(a, b) == IF a <= b THEN a ELSE b
Max(a, b) == IF a >= b THEN a ELSE b

\* client.scrape(u): the response of the remote API, or an exception.
ClientScrape(u) ==
    CASE u = "ok"     -> [raises |-> FALSE, data |-> "page", status_code |-> 200]
      [] u = "denied" -> [raises |-> FALSE, data |-> "forbidden", status_code |-> 403]
      [] OTHER        -> [raises |-> TRUE, data |-> "", status_code |-> 0]

\* A worker that lets a status of exactly 400 pass for a success.
worker_outcome_above_400(r) ==
    IF r.raises
    THEN [body |-> "", status_code |-> 0, error |-> "ConnectionError"]
    ELSE IF r.status_code > 400
         THEN [body |-> r.data, status_code |-> r.status_code, error |-> "RuntimeError"]
         ELSE [body |-> r.data, status_code |-> r.status_code, error |-> None]

\* The body of every do_one of cli.py: the triple made of the client's
\* response r, or of the exception the client call raised.
worker_outcome(r) ==
    IF r.raises
    THEN [body |-> "", status_code |-> 0, error |-> "ConnectionError"]
    ELSE IF r.status_code >= 400
         THEN [body |-> r.data, status_code |-> r.status_code, error |-> "RuntimeError"]
         ELSE [body |-> r.data, status_code |-> r.status_code, error |-> None]

\* The worker the scrape command hands to run_batch.
scrape_do_one(u) == worker_outcome(ClientScrape(u))

\* An input on which the function handed to run_batch raises instead of
\* returning a triple; no worker of cli.py does, for an Exception.
Boom == "boom"
FnRaises(inp) == inp = Boom

\* The batch commands of cli.py; each defines its own do_one.
Commands ==
    {"scrape", "google", "fast_search", "amazon_product", "amazon_search",
     "walmart_search", "walmart_product", "youtube_search", "youtube_metadata",
     "youtube_transcript", "youtube_trainability", "chatgpt"}

\* do_one of the given command on the response r of its client call: the
\* twelve bodies differ only in the client method they call.
command_do_one(cmd, r) == worker_outcome(r)

\* ------------------------------------------------------------ pure helpers
RECURSIVE NonBlank(_)
NonBlank(lines) ==
    IF lines = <<>> THEN <<>>
    ELSE IF Head(lines) = Blank THEN NonBlank(Tail(lines))
         ELSE <<Head(lines)>> \o NonBlank(Tail(lines))

\* read_input_file: the non-empty lines, in file order; <<>> stands for the
\* ValueError of a file with no non-empty line.
read_input_file(lines) == NonBlank(lines)

\* A validator that forgets the plan limit.
validate_batch_run_credits_only(user_conc, num_inputs, usage) ==
    IF usage.credits > 0 /\ num_inputs > usage.credits THEN "credits" ELSE "ok"

\* A validator that takes a balance of 0 for a limit of 0.
validate_batch_run_zero_is_limit(user_conc, num_inputs, usage) ==
    IF user_conc > 0 /\ user_conc > usage.max_concurrency THEN "plan_limit"
    ELSE IF num_inputs > usage.credits THEN "credits"
    ELSE "ok"

\* A validator that forgets the credit balance.
validate_batch_run_plan_only(user_conc, num_inputs, usage) ==
    IF user_conc > 0 /\ user_conc > usage.max_concurrency THEN "plan_limit" ELSE "ok"

\* validate_batch_run: "ok", or the ValueError it raises.
validate_batch_run(user_conc, num_inputs, usage) ==
    IF user_conc > 0 /\ user_conc > usage.max_concurrency THEN "plan_limit"
    ELSE IF usage.credits > 0 /\ num_inputs > usage.credits THEN "credits"
    ELSE "ok"

\* A resolver that caps the concurrency at the number of inputs.
resolve_batch_concurrency_capped(user_conc, usage, num_inputs) ==
    Min(IF user_conc > 0 THEN user_conc ELSE usage.max_concurrency, num_inputs)

resolve_batch_concurrency(user_conc, usage, num_inputs) ==
    IF user_conc > 0 THEN user_conc ELSE usage.max_concurrency

\* Line 79 of run_batch: min(concurrency or 1, len(inputs)).
EffectiveConcurrency(c, n) == Min(IF c = 0 THEN 1 ELSE c, n)

\* An executor that translates failures: a failed item loses its body.
BatchResultDropErrorBody(i, inp, out) ==
    [index |-> i, input |-> inp,
     body |-> IF out.error # None THEN "" ELSE out.body,
     status_code |-> out.status_code, error |-> out.error]

\* The BatchResult that do_one of run_batch builds from the worker's triple.
BatchResult(i, inp, out) ==
    [index |-> i, input |-> inp, body |-> out.body,
     status_code |-> out.status_code, error |-> out.error]

\* do_one of run_batch: the pair (i, BatchResult) a worker call yields.
do_one(i, inp) == <<i, BatchResult(i, inp, scrape_do_one(inp))>>

\* A slot of results that holds Python's None.
NoneSlot == [index |-> -1, input |-> "", body |-> "", status_code |-> 0, error |-> None]

\* The list comprehension of line 94: the slots that are not None, in order.
RECURSIVE NotNone(_)
NotNone(slots) ==
    IF slots = <<>> THEN <<>>
    ELSE IF Head(slots) = NoneSlot THEN NotNone(Tail(slots))
         ELSE <<Head(slots)>> \o NotNone(Tail(slots))

\* ------------------------------------------------------------------- state
VARIABLES
    pc,               \* where the main thread is
    caller,           \* "scrape": the batch command; "direct": run_batch called on its own
    api_key,          \* whether --api-key / SCRAPINGBEE_API_KEY gives a key
    headers_ok,       \* whether every -H value has the Key:Value form
    url_given,        \* whether a positional URL came with --input-file
    user_concurrency, \* obj["concurrency"]
    inputs,           \* the inputs, in file order
    usage_info,       \* what get_batch_usage returned
    arg_concurrency,  \* the concurrency argument run_batch is called with
    max_workers,      \* run_batch's concurrency after line 79, the pool's size
    results,          \* run_batch's slots, one per input
    futures,          \* per input: the state of its future and the result it holds
    work_queue,       \* the executor's queue of submitted, not yet started work
    num_threads,      \* worker threads the executor has started
    idle_semaphore,   \* the executor's count of idle worker threads
    yielded,          \* the futures as_completed has handed to the loop
    calls,            \* per input: how many times the worker function was invoked
    returned,         \* the list run_batch returned
    out_of_order,     \* history: some future was yielded before an earlier input's
    dir_created,      \* whether the output directory exists
    files,            \* the files of the output directory
    error,            \* the exception that ended the command, or None
    call,             \* a function called on its own: its name and arguments
    outcome,          \* what that call returned or raised
    now,              \* the local clock, in ticks
    run_dirs          \* the directories that runs without --batch-output-dir wrote to

vars == <<pc, caller, api_key, headers_ok, url_given, user_concurrency, inputs,
          usage_info, arg_concurrency, max_workers, results, futures,
          work_queue, num_threads, idle_semaphore, yielded, calls, returned,
          out_of_order, dir_created, files, error, call, outcome, now, run_dirs>>

cli_vars == <<caller, api_key, headers_ok, url_given, user_concurrency>>
pool_vars == <<max_workers, results, futures, work_queue, num_threads,
               idle_semaphore, yielded, calls, returned, out_of_order>>
fs_vars == <<dir_created, files>>
aux_vars == <<call, outcome, now, run_dirs>>

NoUsage == [max_concurrency |-> -1, credits |-> -1]

NoFile == "<absent>"
FileNames == (1 .. MaxInputs) \X {"txt", "err"}

N == Len(inputs)
Running == {i \in DOMAIN futures : futures[i].state = "running"}

InputSeqs(lo) == UNION {[1 .. n -> Urls] : n \in lo .. MaxInputs}
FileTexts == UNION {[1 .. n -> Urls \cup {Blank}] : n \in 0 .. MaxInputs}
Usages == [max_concurrency : 0 .. MaxPlan, credits : 0 .. MaxCredits]
UserConcurrencies == -1 .. (MaxPlan + 1)
ArgConcurrencies == -1 .. (MaxInputs + 1)

PoolIdle ==
    /\ max_workers = 0 /\ results = <<>> /\ futures = <<>> /\ work_queue = <<>>
    /\ num_threads = 0 /\ idle_semaphore = 0 /\ yielded = {} /\ calls = <<>>
    /\ returned = <<>> /\ out_of_order = FALSE

NoOutput ==
    /\ dir_created = FALSE
    /\ files = [f \in FileNames |-> NoFile]

NoCall == [fn |-> "none"]
Pending == "pending"

\* No function is called on its own and the clock stands still.
AuxIdle ==
    /\ call = NoCall /\ outcome = Pending /\ now = 0 /\ run_dirs = <<>>

\* The batch command, before its first statement.
Init ==
    /\ pc = "start" /\ caller = "scrape"
    /\ api_key \in BOOLEAN /\ headers_ok \in BOOLEAN /\ url_given \in BOOLEAN
    /\ user_concurrency \in UserConcurrencies
    /\ inputs = <<>> /\ usage_info = NoUsage /\ arg_concurrency = 0
    /\ PoolIdle /\ NoOutput /\ error = None /\ AuxIdle

\* run_batch called on its own, with any inputs and any concurrency.
InitRun ==
    /\ pc = "run_batch" /\ caller = "direct"
    /\ api_key = TRUE /\ headers_ok = TRUE /\ url_given = FALSE
    /\ user_concurrency = 0 /\ usage_info = NoUsage
    /\ inputs \in InputSeqs(0)
    /\ arg_concurrency \in ArgConcurrencies
    /\ PoolIdle /\ NoOutput /\ error = None /\ AuxIdle

Raise(e) == pc' = "failed" /\ error' = e

\* ------------------------------------------------- the batch command (cli.py)
\* scrape, lines 237-241: the API key, or exit 1.
GetApiKey ==
    /\ pc = "start"
    /\ IF api_key THEN pc' = "args" /\ error' = error ELSE Raise("SystemExit")
    /\ UNCHANGED <<cli_vars, aux_vars, inputs, usage_info, arg_concurrency, pool_vars, fs_vars>>

\* scrape, lines 243-254: the -H values and the URL / --input-file exclusion.
CheckArgs ==
    /\ pc = "args"
    /\ IF headers_ok /\ ~url_given THEN pc' = "read" /\ error' = error
       ELSE Raise("SystemExit")
    /\ UNCHANGED <<cli_vars, aux_vars, inputs, usage_info, arg_concurrency, pool_vars, fs_vars>>

\* scrape, line 255: read_input_file on whatever the file holds.
ReadInputFile ==
    /\ pc = "read"
    /\ \E text \in FileTexts :
         LET lines == read_input_file(text) IN
         IF lines = <<>>
         THEN Raise("ValueError") /\ inputs' = inputs
         ELSE pc' = "usage" /\ inputs' = lines /\ error' = error
    /\ UNCHANGED <<cli_vars, aux_vars, usage_info, arg_concurrency, pool_vars, fs_vars>>

\* What the usage endpoint can answer: a transport failure, a status, and
\* (for a 200) the usage its body parses to.
UsageResponses == [raises : BOOLEAN, code : {200, 500}, usage : Usages]

\* A get_batch_usage that parses the body whatever the status.
get_batch_usage_any_status(resp) ==
    IF ~api_key THEN [raised |-> "ValueError", usage |-> NoUsage]
    ELSE IF resp.raises THEN [raised |-> "ConnectionError", usage |-> NoUsage]
    ELSE [raised |-> None, usage |-> resp.usage]

\* get_batch_usage(resp): the usage, or the exception that it raises.
get_batch_usage(resp) ==
    IF ~api_key THEN [raised |-> "ValueError", usage |-> NoUsage]
    ELSE IF resp.raises THEN [raised |-> "ConnectionError", usage |-> NoUsage]
    ELSE IF resp.code # 200 THEN [raised |-> "RuntimeError", usage |-> NoUsage]
    ELSE [raised |-> None, usage |-> resp.usage]

\* scrape, line 256; call keeps what the usage endpoint answered.
GetBatchUsage ==
    /\ pc = "usage"
    /\ \E resp \in UsageResponses :
         LET u == get_batch_usage(resp) IN
         /\ call' = [fn |-> "client.usage", resp |-> resp]
         /\ IF u.raised # None
            THEN Raise(u.raised) /\ usage_info' = usage_info
            ELSE pc' = "validate" /\ usage_info' = u.usage /\ error' = error
    /\ UNCHANGED <<cli_vars, outcome, now, run_dirs, inputs, arg_concurrency,
                   pool_vars, fs_vars>>

\* A command that runs the validator and goes on whatever it says.
ValidateBatchRunIgnored ==
    /\ pc = "validate"
    /\ pc' = "resolve"
    /\ UNCHANGED <<cli_vars, aux_vars, inputs, usage_info, arg_concurrency, pool_vars, fs_vars, error>>

\* scrape, line 257.
ValidateBatchRun ==
    /\ pc = "validate"
    /\ IF validate_batch_run(user_concurrency, N, usage_info) = "ok"
       THEN pc' = "resolve" /\ error' = error
       ELSE Raise("ValueError")
    /\ UNCHANGED <<cli_vars, aux_vars, inputs, usage_info, arg_concurrency, pool_vars, fs_vars>>

\* scrape, lines 258-311: resolve the concurrency and call run_batch with it.
CallRunBatch ==
    /\ pc = "resolve"
    /\ arg_concurrency' = resolve_batch_concurrency(user_concurrency, usage_info, N)
    /\ pc' = "run_batch"
    /\ UNCHANGED <<cli_vars, aux_vars, inputs, usage_info, pool_vars, fs_vars, error>>

\* ------------------------------------------------------ run_batch (batch.py)
\* An executor that can be opened with any number of workers.
ExecutorAcceptsAnySize(c) == TRUE

\* ThreadPoolExecutor(max_workers=c) raises ValueError unless c > 0.
ExecutorAccepts(c) == c > 0

\* Lines 79-88: size the pool, allocate the slots, open the executor.
RunBatchEnter ==
    /\ pc = "run_batch"
    /\ LET c == EffectiveConcurrency(arg_concurrency, N) IN
       /\ max_workers' = c
       /\ results' = [i \in 1 .. N |-> NoneSlot]
       /\ IF ExecutorAccepts(c)
          THEN /\ pc' = "submit" /\ error' = error
               /\ futures' = [i \in 1 .. N |->
                                [state |-> "unsubmitted", result |-> <<-1, NoneSlot>>]]
               /\ calls' = [i \in 1 .. N |-> 0]
          ELSE Raise("ValueError") /\ UNCHANGED <<futures, calls>>
    /\ UNCHANGED <<cli_vars, aux_vars, inputs, usage_info, arg_concurrency, work_queue,
                   num_threads, idle_semaphore, yielded, returned, out_of_order,
                   fs_vars>>

\* A pool that starts a thread for every submitted item, whatever its size.
AdjustThreadCountUnbounded(threads, idle, limit) ==
    IF idle > 0 THEN <<threads, idle - 1>> ELSE <<threads + 1, idle>>

\* A pool that stops one thread short of its size (none for a pool of one).
AdjustThreadCountShort(threads, idle, limit) ==
    IF idle > 0 THEN <<threads, idle - 1>>
    ELSE IF threads < limit - 1 THEN <<threads + 1, idle>>
    ELSE <<threads, idle>>

\* executor.submit's _adjust_thread_count: reuse an idle thread, or start one
\* while fewer than max_workers exist. Gives <<num_threads, idle_semaphore>>.
AdjustThreadCount(threads, idle, limit) ==
    IF idle > 0 THEN <<threads, idle - 1>>
    ELSE IF threads < limit THEN <<threads + 1, idle>>
    ELSE <<threads, idle>>

\* Line 89: the dict comprehension submits the inputs one by one, in order.
Submit ==
    /\ pc = "submit"
    /\ LET i == CHOOSE k \in 1 .. N :
                  /\ futures[k].state = "unsubmitted"
                  /\ \A j \in 1 .. (k - 1) : futures[j].state # "unsubmitted"
           adj == AdjustThreadCount(num_threads, idle_semaphore, max_workers)
       IN
       /\ futures' = [futures EXCEPT ![i].state = "pending"]
       /\ work_queue' = Append(work_queue, i)
       /\ num_threads' = adj[1]
       /\ idle_semaphore' = adj[2]
       /\ pc' = IF i = N THEN "collect" ELSE "submit"
    /\ UNCHANGED <<cli_vars, aux_vars, inputs, usage_info, arg_concurrency, max_workers,
                   results, yielded, calls, returned, out_of_order, fs_vars, error>>

\* What is left of the work queue once a thread took its head.
Dequeue(q) == Tail(q)

\* A worker thread with nothing to do takes the head of the queue and enters
\* do_one, which invokes the worker function (lines 82-83).
WorkerStart ==
    /\ pc \in {"submit", "collect", "unwind"}
    /\ work_queue # <<>>
    /\ Cardinality(Running) < num_threads
    /\ LET i == Head(work_queue) IN
       /\ futures' = [futures EXCEPT ![i].state = "running"]
       /\ calls' = [calls EXCEPT ![i] = @ + 1]
    /\ work_queue' = Dequeue(work_queue)
    /\ UNCHANGED <<pc, cli_vars, aux_vars, inputs, usage_info, arg_concurrency, max_workers,
                   results, num_threads, idle_semaphore, yielded, returned,
                   out_of_order, fs_vars, error>>

\* The worker function returns; do_one wraps its triple (lines 83-86) and the
\* future holds it, or holds the exception that the function raised. The
\* thread turns idle when no work is queued.
WorkerFinish ==
    /\ pc \in {"submit", "collect", "unwind"}
    /\ \E i \in Running :
         futures' = [futures EXCEPT ![i] =
                       IF FnRaises(inputs[i])
                       THEN [state |-> "raised", result |-> <<-1, NoneSlot>>]
                       ELSE [state |-> "finished", result |-> do_one(i - 1, inputs[i])]]
    /\ idle_semaphore' = IF work_queue = <<>> THEN idle_semaphore + 1 ELSE idle_semaphore
    /\ UNCHANGED <<pc, cli_vars, aux_vars, inputs, usage_info, arg_concurrency, max_workers,
                   results, work_queue, num_threads, yielded, calls, returned,
                   out_of_order, fs_vars, error>>

\* Results kept in completion order: the first free slot takes the result.
StoreResultInCompletionOrder(slots, result) ==
    LET free == CHOOSE k \in 1 .. Len(slots) :
                  /\ slots[k] = NoneSlot
                  /\ \A j \in 1 .. (k - 1) : slots[j] # NoneSlot
    IN [slots EXCEPT ![free] = result]

\* Line 92: results[result.index] = result.
StoreResult(slots, result) == [slots EXCEPT ![result.index + 1] = result]

\* A loop that gives up at the first result carrying an error.
AfterCollectAbortOnError(seen, result) ==
    IF seen = 1 .. N \/ result.error # None THEN "shutdown" ELSE "collect"

\* Where the loop of line 90 goes after a result: on to the next future, or
\* out of the loop when as_completed has yielded them all.
AfterCollect(seen, result) ==
    IF seen = 1 .. N THEN "shutdown" ELSE "collect"

\* Lines 90-92: as_completed yields a finished future, in completion order;
\* fut.result() gives its result or raises its exception, which leaves the
\* loop and the with block.
Collect ==
    /\ pc = "collect"
    /\ \E i \in 1 .. N :
         /\ futures[i].state \in {"finished", "raised"}
         /\ i \notin yielded
         /\ yielded' = yielded \cup {i}
         /\ out_of_order' = (out_of_order \/ \E j \in 1 .. (i - 1) : j \notin yielded)
         /\ IF futures[i].state = "raised"
            THEN /\ results' = results
                 /\ pc' = "unwind"
                 /\ error' = "WorkerError"
            ELSE LET result == futures[i].result[2] IN
                 /\ results' = StoreResult(results, result)
                 /\ pc' = AfterCollect(yielded \cup {i}, result)
                 /\ error' = error
    /\ UNCHANGED <<cli_vars, aux_vars, inputs, usage_info, arg_concurrency, max_workers,
                   futures, work_queue, num_threads, idle_semaphore, calls,
                   returned, fs_vars>>

\* A shutdown that does not wait for the calls still queued or running.
ShutdownWithoutWaiting == TRUE

\* Leaving the with block: shutdown(wait=True) joins the worker threads.
ShutdownDone == Running = {} /\ work_queue = <<>>

\* An executor that returns at the first error it sees, without waiting
\* (shutdown(wait=False)) for the calls still queued or running.
RunBatchReturnOnFirstError ==
    /\ \/ pc = "shutdown" /\ ShutdownDone
       \/ pc = "collect" /\ \E i \in yielded : results[i].error # None
    /\ returned' = NotNone(results)
    /\ pc' = "returned"
    /\ UNCHANGED <<cli_vars, aux_vars, inputs, usage_info, arg_concurrency, max_workers,
                   results, futures, work_queue, num_threads, idle_semaphore,
                   yielded, calls, out_of_order, fs_vars, error>>

\* Lines 88 (exit) and 94.
RunBatchReturn ==
    /\ pc = "shutdown"
    /\ ShutdownDone
    /\ returned' = NotNone(results)
    /\ pc' = "returned"
    /\ UNCHANGED <<cli_vars, aux_vars, inputs, usage_info, arg_concurrency, max_workers,
                   results, futures, work_queue, num_threads, idle_semaphore,
                   yielded, calls, out_of_order, fs_vars, error>>

\* Line 88 (exit) with an exception on its way: once the threads are joined
\* it leaves run_batch, and scrape (line 311) does not catch it.
RunBatchPropagate ==
    /\ pc = "unwind"
    /\ ShutdownDone
    /\ pc' = "failed"
    /\ UNCHANGED <<cli_vars, aux_vars, inputs, usage_info, arg_concurrency, pool_vars,
                   fs_vars, error>>

\* ------------------------------------------------- the result writer (batch.py)
\* A writer that skips an empty body on success too.
write_one_skip_empty(fs, r) ==
    LET n == r.index + 1 IN
    IF r.error # None
    THEN IF r.body # "" THEN [fs EXCEPT ![<<n, "err">>] = r.body] ELSE fs
    ELSE IF r.body # "" THEN [fs EXCEPT ![<<n, "txt">>] = r.body] ELSE fs

\* A writer that leaves an .err file for every failed item, empty or not.
write_one_always_err(fs, r) ==
    LET n == r.index + 1 IN
    IF r.error # None
    THEN [fs EXCEPT ![<<n, "err">>] = r.body]
    ELSE [fs EXCEPT ![<<n, "txt">>] = r.body]

\* A writer that removes the other file of the item it writes.
write_one_removing_sibling(fs, r) ==
    LET n == r.index + 1 IN
    IF r.error # None
    THEN IF r.body # ""
         THEN [fs EXCEPT ![<<n, "err">>] = r.body, ![<<n, "txt">>] = NoFile]
         ELSE fs
    ELSE [fs EXCEPT ![<<n, "txt">>] = r.body, ![<<n, "err">>] = NoFile]

\* Lines 112-126: what one result leaves in the directory.
write_one(fs, r) ==
    LET n == r.index + 1 IN
    IF r.error # None
    THEN IF r.body # "" THEN [fs EXCEPT ![<<n, "err">>] = r.body] ELSE fs
    ELSE [fs EXCEPT ![<<n, "txt">>] = r.body]

RECURSIVE write_all(_, _)
write_all(fs, rs) ==
    IF rs = <<>> THEN fs ELSE write_all(write_one(fs, Head(rs)), Tail(rs))

\* scrape, lines 312-314: write_batch_output_to_dir on what run_batch returned.
WriteBatchOutput ==
    /\ pc = "returned"
    /\ caller = "scrape"
    /\ dir_created' = TRUE
    /\ files' = write_all(files, returned)
    /\ pc' = "written"
    /\ UNCHANGED <<cli_vars, aux_vars, inputs, usage_info, arg_concurrency, pool_vars, error>>

\* scrape, lines 315-316: report the directory.
ReportDone ==
    /\ pc = "written"
    /\ pc' = "done"
    /\ UNCHANGED <<cli_vars, aux_vars, inputs, usage_info, arg_concurrency, pool_vars,
                   fs_vars, error>>

\* ---------------------------------------------------------- specifications
NextRun ==
    \/ RunBatchEnter
    \/ Submit
    \/ WorkerStart
    \/ WorkerFinish
    \/ Collect
    \/ RunBatchReturn

Next ==
    \/ GetApiKey
    \/ CheckArgs
    \/ ReadInputFile
    \/ GetBatchUsage
    \/ ValidateBatchRun
    \/ CallRunBatch
    \/ RunBatchEnter
    \/ Submit
    \/ WorkerStart
    \/ WorkerFinish
    \/ Collect
    \/ RunBatchReturn
    \/ WriteBatchOutput
    \/ ReportDone

\* The batch command.
Spec == Init /\ [][Next]_vars

\* run_batch on its own.
SpecRun == InitRun /\ [][NextRun]_vars

\* The batch command when the main thread and the worker threads keep running
\* and every worker call returns.
FairSpec == Init /\ [][Next]_vars /\ WF_vars(Next)

\* ------------------------------------------------------------------ claims
InRun == pc \in {"submit", "collect", "shutdown"}
Failed(k) == scrape_do_one(inputs[k]).error # None

\* C1: for non-empty inputs and a concurrency of at least 1, run_batch does
\* not fail and what it returns has one element per input, the k-th element
\* carrying index k (0-based), whatever order the calls completed in.
C1_IndexIntegrity ==
    (N >= 1 /\ arg_concurrency >= 1) =>
        /\ pc # "failed"
        /\ pc = "returned" =>
             /\ Len(returned) = N
             /\ \A k \in 1 .. N : returned[k].index = k - 1

C1_Witness ==
    /\ pc = "returned" /\ N >= 2 /\ arg_concurrency >= 2 /\ out_of_order

\* C2: the worker is invoked exactly once per input position, whatever the
\* concurrency: never twice, and once run_batch is over (returned or raised)
\* every position has had its call.
C2_ExactlyOnce ==
    /\ \A i \in DOMAIN calls : calls[i] <= 1
    /\ pc \in {"returned", "failed"} =>
         /\ DOMAIN calls = 1 .. N
         /\ \A i \in 1 .. N : calls[i] = 1

\* C3: while the pool is open, the calls executing at once never exceed the
\* pool size fixed on entry (line 79), nor do the threads started, and the
\* pool size stays the value computed on entry.
C3_PoolBound ==
    InRun =>
        /\ Cardinality(Running) <= max_workers
        /\ num_threads <= max_workers
        /\ max_workers = Min(IF arg_concurrency = 0 THEN 1 ELSE arg_concurrency, N)

C3_Witness ==
    /\ InRun /\ max_workers >= 2
    /\ Cardinality(Running) = max_workers
    /\ work_queue # <<>>

\* C4: in a batch command whose usage has max_concurrency >= 1 and that got
\* past validate_batch_run, the calls in flight never exceed
\* usage.max_concurrency, whatever --concurrency was.
C4_PlanLimit ==
    (caller = "scrape" /\ usage_info.max_concurrency >= 1) =>
        Cardinality(Running) <= usage_info.max_concurrency

C4_Witness ==
    /\ caller = "scrape" /\ usage_info.max_concurrency >= 2
    /\ Cardinality(Running) = usage_info.max_concurrency
    /\ work_queue # <<>>

\* The inputs had the call for position k succeeded.
HadSucceeded(k) == [inputs EXCEPT ![k] = "ok"]

\* C5: once the worker has returned an error for position k, run_batch does
\* not fail; what it returns has one result per input, position k carries that
\* error, and every other position is what it is when k succeeds.
C5_ErrorIsolation ==
    \A k \in 1 .. N :
        (k \in DOMAIN futures /\ futures[k].state = "finished" /\ Failed(k)) =>
            /\ pc # "failed"
            /\ pc = "returned" =>
                 /\ Len(returned) = N
                 /\ returned[k].error = scrape_do_one(inputs[k]).error
                 /\ \A j \in (1 .. N) \ {k} :
                      returned[j] = [index |-> j - 1,
                                     input |-> HadSucceeded(k)[j],
                                     body |-> scrape_do_one(HadSucceeded(k)[j]).body,
                                     status_code |-> scrape_do_one(HadSucceeded(k)[j]).status_code,
                                     error |-> scrape_do_one(HadSucceeded(k)[j]).error]

C5_Witness ==
    /\ pc = "returned" /\ N >= 2
    /\ \E k \in 1 .. N : returned[k].error # None
    /\ \E j \in 1 .. N : returned[j].error = None

Called == {i \in DOMAIN calls : calls[i] > 0}
Dispatched == {i \in DOMAIN futures : futures[i].state # "unsubmitted"}

\* C6: in the batch command a worker call (or a submission to the pool) only
\* happens once the key was found, the inputs were loaded, the usage was
\* fetched and the run was validated; and a command that failed made no worker
\* call and wrote no directory and no file.
C6_PreflightFirst ==
    /\ (Called # {} \/ Dispatched # {}) =>
         /\ api_key /\ headers_ok /\ ~url_given
         /\ inputs # <<>>
         /\ usage_info # NoUsage
         /\ ~(user_concurrency > 0 /\ user_concurrency > usage_info.max_concurrency)
         /\ ~(usage_info.credits > 0 /\ N > usage_info.credits)
    /\ pc = "failed" =>
         /\ Called = {} /\ Dispatched = {}
         /\ ~dir_created
         /\ \A f \in FileNames : files[f] = NoFile

\* The last pre-flight check failed: inputs and usage are there, the run is not.
C6_Witness ==
    /\ pc = "failed" /\ error = "ValueError"
    /\ inputs # <<>> /\ usage_info # NoUsage

\* C7: run_batch has returned, and the writer has written, only when no call
\* is queued or running and every input's call was made and has completed,
\* whichever items failed.
C7_ReturnAfterAll ==
    (pc \in {"returned", "written", "done"} \/ dir_created) =>
        /\ Running = {} /\ work_queue = <<>>
        /\ \A i \in 1 .. N : futures[i].state = "finished" /\ calls[i] = 1

C7_Witness ==
    /\ pc = "written" /\ N >= 2
    /\ Failed(1) /\ ~Failed(N)

C9_PoolSize ==
    (pc # "run_batch" /\ N >= 1) =>
        /\ max_workers = Min(Max(arg_concurrency, 1), N)
        /\ max_workers >= 1 /\ max_workers <= N

\* C10: what run_batch returns is, position by position, the input and the
\* body, status and error the worker gave for it, untranslated: a function of
\* the inputs alone, not of the interleaving or the concurrency.
C10_Untranslated ==
    pc = "returned" =>
        returned = [k \in 1 .. N |->
                      [index |-> k - 1,
                       input |-> inputs[k],
                       body |-> scrape_do_one(inputs[k]).body,
                       status_code |-> scrape_do_one(inputs[k]).status_code,
                       error |-> scrape_do_one(inputs[k]).error]]

C10_Witness ==
    /\ pc = "returned" /\ out_of_order /\ max_workers >= 2
    /\ \E k \in 1 .. N : returned[k].error # None /\ returned[k].body # ""

RECURSIVE SumCalls(_)
SumCalls(cs) == IF cs = <<>> THEN 0 ELSE Head(cs) + SumCalls(Tail(cs))

\* C11: in a batch command whose usage has credits > 0, the worker calls made
\* over the whole run never exceed usage.credits; with credits = 0 no credit
\* limit applies: validation then fails only on the plan limit, whatever the
\* number of inputs.
C11_CreditLimit ==
    /\ (caller = "scrape" /\ usage_info.credits > 0) =>
         SumCalls(calls) <= usage_info.credits
    /\ (caller = "scrape" /\ usage_info.credits = 0 /\ pc = "failed") =>
         (user_concurrency > 0 /\ user_concurrency > usage_info.max_concurrency)

\* A run that used up its credits exactly.
C11_Witness ==
    /\ pc = "done" /\ usage_info.credits >= 2
    /\ SumCalls(calls) = usage_info.credits

\* ------------------------------------------------ functions called on their own
\* The rest of the command stands still while one function is called.
CommandIdle ==
    /\ api_key = TRUE /\ headers_ok = TRUE /\ url_given = FALSE
    /\ user_concurrency = 0 /\ inputs = <<>> /\ usage_info = NoUsage
    /\ arg_concurrency = 0 /\ PoolIdle /\ error = None

ValidateCalls ==
    [fn : {"validate_batch_run"}, user_concurrency : UserConcurrencies,
     num_inputs : 0 .. (MaxInputs + 1), usage : Usages]

ResolveCalls ==
    [fn : {"resolve_batch_concurrency"}, user_concurrency : UserConcurrencies,
     usage : Usages, num_inputs : 0 .. MaxInputs]

\* validate_batch_run(user_concurrency, num_inputs, usage).
ApplyValidate ==
    /\ pc = "call" /\ call.fn = "validate_batch_run"
    /\ outcome' = validate_batch_run(call.user_concurrency, call.num_inputs, call.usage)
    /\ pc' = "applied"
    /\ UNCHANGED <<cli_vars, inputs, usage_info, arg_concurrency, pool_vars,
                   fs_vars, error, call, now, run_dirs>>

\* resolve_batch_concurrency(user_concurrency, usage, num_inputs).
ApplyResolve ==
    /\ pc = "call" /\ call.fn = "resolve_batch_concurrency"
    /\ outcome' = resolve_batch_concurrency(call.user_concurrency, call.usage,
                                            call.num_inputs)
    /\ pc' = "applied"
    /\ UNCHANGED <<cli_vars, inputs, usage_info, arg_concurrency, pool_vars,
                   fs_vars, error, call, now, run_dirs>>

Applied(fn) == pc = "applied" /\ call.fn = fn

\* C12: validate_batch_run fails exactly when the requested concurrency is
\* positive and above usage.max_concurrency, or credits is positive and below
\* the number of inputs; so credits = 0 never fails it and a requested
\* concurrency <= 0 never gives the plan-limit failure.
C12_ValidateExactly ==
    Applied("validate_batch_run") =>
        LET plan == /\ call.user_concurrency > 0
                    /\ call.user_concurrency > call.usage.max_concurrency
            cred == /\ call.usage.credits > 0
                    /\ call.num_inputs > call.usage.credits
        IN /\ (outcome # "ok") <=> (plan \/ cred)
           /\ (call.usage.credits = 0) => (outcome # "credits")
           /\ (call.user_concurrency <= 0) => (outcome # "plan_limit")

\* More inputs than any balance, no credits reported, no concurrency asked.
C12_Witness ==
    /\ Applied("validate_batch_run") /\ outcome = "ok"
    /\ call.usage.credits = 0 /\ call.num_inputs >= 2
    /\ call.user_concurrency <= 0

\* C13: resolve_batch_concurrency returns the requested concurrency when it
\* is positive and usage.max_concurrency otherwise, whatever the number of
\* inputs; the value is positive whenever usage.max_concurrency is.
C13_Resolve ==
    Applied("resolve_batch_concurrency") =>
        /\ outcome = IF call.user_concurrency > 0 THEN call.user_concurrency
                     ELSE call.usage.max_concurrency
        /\ (call.usage.max_concurrency > 0) => (outcome > 0)

\* The plan limit is returned although there are fewer inputs than that.
C13_Witness ==
    /\ Applied("resolve_batch_concurrency") /\ call.user_concurrency <= 0
    /\ outcome = call.usage.max_concurrency
    /\ call.num_inputs < outcome


\* ------------------------------------------- the writer called on its own
\* A makedirs that forgets exist_ok.
makedirs_exclusive(exists, exist_ok) ==
    IF exists THEN "FileExistsError" ELSE "ok"

\* os.makedirs(abs_dir, exist_ok): "ok", or the exception it raises.
makedirs(exists, exist_ok) ==
    IF exists /\ ~exist_ok THEN "FileExistsError" ELSE "ok"

\* write_batch_output_to_dir on a directory that exists or not and holds fs:
\* the exception raised (or None), and the directory afterwards.
write_batch_output_to_dir(fs, exists, rs) ==
    LET made == makedirs(exists, TRUE) IN
    IF made # "ok"
    THEN [raised |-> made, exists |-> exists, files |-> fs]
    ELSE [raised |-> None, exists |-> TRUE, files |-> write_all(fs, rs)]

\* What a worker can hand back: a body, an empty body, an HTTP error with its
\* diagnostic body, a transport failure with none.
WriterOutcomes ==
    {[body |-> "page", status_code |-> 200, error |-> None],
     [body |-> "", status_code |-> 200, error |-> None],
     [body |-> "forbidden", status_code |-> 403, error |-> "RuntimeError"],
     [body |-> "", status_code |-> 0, error |-> "ConnectionError"]}

\* The result lists run_batch can return for up to MaxInputs inputs.
ResultLists ==
    UNION {{[k \in 1 .. n |-> BatchResult(k - 1, "in", o[k])] :
              o \in [1 .. n -> WriterOutcomes]} : n \in 0 .. MaxInputs}

WriteCalls ==
    [fn : {"write_batch_output_to_dir"}, results : ResultLists, output_dir : {"out"}]

\* The target directory before the call: missing, or there with files left
\* by an earlier run.
Stale == "stale"
PriorDirectory ==
    \/ dir_created = FALSE /\ files = [f \in FileNames |-> NoFile]
    \/ dir_created = TRUE /\ files \in [FileNames -> {NoFile, Stale}]

\* One call of the writer; the caller goes on at `to` when it returns.
WriterStep(to) ==
    /\ call.fn = "write_batch_output_to_dir"
    /\ LET w == write_batch_output_to_dir(files, dir_created, call.results) IN
       /\ dir_created' = w.exists
       /\ files' = w.files
       /\ IF w.raised = None
          THEN pc' = to /\ outcome' = call.output_dir /\ error' = error
          ELSE Raise(w.raised) /\ outcome' = outcome
    /\ UNCHANGED <<cli_vars, inputs, usage_info, arg_concurrency, pool_vars,
                   call, now, run_dirs>>

\* write_batch_output_to_dir(results, dir, verbose).
WriterCall ==
    /\ pc = "write_call"
    /\ WriterStep("written_once")

\* The same call made a second time.
WriterCallAgain ==
    /\ pc = "written_once"
    /\ WriterStep("written_twice")

InitWriter ==
    /\ pc = "write_call" /\ caller = "writer"
    /\ CommandIdle /\ PriorDirectory
    /\ outcome = Pending /\ now = 0 /\ run_dirs = <<>>
    /\ call \in WriteCalls

NextWriter ==
    \/ WriterCall
    \/ WriterCallAgain

SpecWriter == InitWriter /\ [][NextWriter]_vars

Txt(r) == <<r.index + 1, "txt">>
Err(r) == <<r.index + 1, "err">>
Given == {call.results[k] : k \in 1 .. Len(call.results)}
FirstWrite == pc = "write_call" /\ pc' = "written_once"

\* C14: for every result without an error the writer leaves exactly the
\* result's body, empty or not, in <index+1>.txt, and does not touch
\* <index+1>.err.
C14_SuccessFile ==
    [][FirstWrite =>
         \A r \in Given : (r.error = None) =>
             /\ files'[Txt(r)] = r.body
             /\ files'[Err(r)] = files[Err(r)]]_vars

\* A success with an empty body has its (empty) file.
C14_Witness ==
    /\ pc = "written_once"
    /\ \E r \in Given : r.error = None /\ r.body = "" /\ files[Txt(r)] = ""
    /\ \E r \in Given : r.error = None /\ r.body # "" /\ files[Txt(r)] = r.body

\* C15: for every result with an error the writer does not touch
\* <index+1>.txt, and writes the body to <index+1>.err if and only if the
\* body is not empty.
C15_FailureFile ==
    [][FirstWrite =>
         \A r \in Given : (r.error # None) =>
             /\ files'[Txt(r)] = files[Txt(r)]
             /\ (r.body # "") => files'[Err(r)] = r.body
             /\ (r.body = "") => files'[Err(r)] = files[Err(r)]]_vars

\* One failure with a body and its .err file, one without either.
C15_Witness ==
    /\ pc = "written_once"
    /\ \E r \in Given : r.error # None /\ r.body # "" /\ files[Err(r)] = r.body
    /\ \E r \in Given : r.error # None /\ r.body = "" /\ files[Err(r)] = NoFile
                        /\ files[Txt(r)] = NoFile

\* C16: the writer succeeds on a directory that is already there, and a
\* second call with the same results and directory succeeds and leaves the
\* directory, file by file, as the first call left it.
C16_Idempotent ==
    [][/\ (pc = "write_call") => (pc' = "written_once" /\ dir_created')
       /\ (pc = "written_once") =>
            /\ pc' = "written_twice"
            /\ files' = files /\ dir_created' = dir_created
            /\ outcome' = outcome]_vars

C16_Witness ==
    /\ pc = "written_twice"
    /\ \E r \in Given : r.error = None /\ files[Txt(r)] = r.body
    /\ \E r \in Given : r.error # None /\ r.body # "" /\ files[Err(r)] = r.body


\* C27: after the writer returns, whatever the directory held before, for
\* every item N given, <N>.txt is present only if item N succeeded and
\* <N>.err is present only if item N failed with a non-empty body.
C27_FilesMatchResults ==
    (pc = "written_once") =>
        \A r \in Given :
            /\ (files[Txt(r)] # NoFile) => (r.error = None)
            /\ (files[Err(r)] # NoFile) => (r.error # None /\ r.body # "")

\* The files the call created or overwrote.
Touched == {f \in FileNames : files'[f] # files[f]}

\* C28: the writer creates or overwrites only files named <index+1>.txt or
\* <index+1>.err for the results it is given, at most one for each result;
\* it deletes no file and leaves every other file of the directory as it was.
C28_OnlyOwnFiles ==
    [][FirstWrite =>
         /\ \A f \in Touched : \E r \in Given : f \in {Txt(r), Err(r)}
         /\ \A r \in Given : ~(Txt(r) \in Touched /\ Err(r) \in Touched)
         /\ \A f \in FileNames : (files[f] # NoFile) => (files'[f] # NoFile)]_vars

\* A file of an index beyond the results, and the other file of a written
\* item, are still what the earlier run left.
C28_Witness ==
    /\ pc = "written_once"
    /\ Len(call.results) \in 1 .. (MaxInputs - 1)
    /\ files[<<Len(call.results) + 1, "txt">>] = Stale
    /\ \E r \in Given : r.error = None /\ files[Txt(r)] = r.body /\ files[Err(r)] = Stale

\* ------------------------------------------------ the default output directory
\* A directory name: the one given, or batch_<stamp> for the stamp of a second.
GivenDir(name) == [given |-> name, stamp |-> -1]

\* default_batch_output_dir at clock t: strftime("%Y%m%d_%H%M%S") keeps the
\* whole seconds of the local time and drops the rest.
default_batch_output_dir(t) == [given |-> "", stamp |-> t \div TicksPerSecond]

\* Line 108: output_dir or default_batch_output_dir().
TargetDir(output_dir, t) ==
    IF output_dir = "" THEN default_batch_output_dir(t) ELSE GivenDir(output_dir)

\* Time passes.
Tick ==
    /\ pc = "runs"
    /\ now < MaxTicks
    /\ now' = now + 1
    /\ UNCHANGED <<pc, cli_vars, inputs, usage_info, arg_concurrency, pool_vars,
                   fs_vars, error, call, outcome, run_dirs>>

\* A batch run reaches write_batch_output_to_dir (lines 108-110), with or
\* without --batch-output-dir; makedirs accepts a directory that is there.
RunWritesDir ==
    /\ pc = "runs"
    /\ Len(run_dirs) < MaxRuns
    /\ \E output_dir \in {"", "out"} :
         /\ makedirs(\E k \in DOMAIN run_dirs : run_dirs[k] = TargetDir(output_dir, now),
                     TRUE) = "ok"
         /\ run_dirs' = Append(run_dirs, TargetDir(output_dir, now))
    /\ UNCHANGED <<pc, cli_vars, inputs, usage_info, arg_concurrency, pool_vars,
                   fs_vars, error, call, outcome, now>>

InitDir ==
    /\ pc = "runs" /\ caller = "runs"
    /\ CommandIdle /\ NoOutput
    /\ call = NoCall /\ outcome = Pending
    /\ now \in 0 .. (TicksPerSecond - 1) /\ run_dirs = <<>>

NextDir ==
    \/ Tick
    \/ RunWritesDir

SpecDir == InitDir /\ [][NextDir]_vars

\* C17: a run without a target directory writes to batch_<stamp of the
\* current second>, and two runs that both leave the target directory
\* unspecified write to different directories.
C17_NoCollision ==
    \A i \in DOMAIN run_dirs : \A j \in DOMAIN run_dirs :
        (i < j /\ run_dirs[i].given = "" /\ run_dirs[j].given = "") =>
            run_dirs[i] # run_dirs[j]


\* ------------------------------------------------- a worker called on its own
\* What a client call can do: raise, or answer with a status and a body.
ClientResponses ==
    [raises : BOOLEAN, data : {"", "page"},
     status_code : {200, 204, 301, 399, 400, 403, 500}]

WorkerCalls == [fn : {"do_one"}, command : Commands, resp : ClientResponses]

\* do_one(input) of a batch command.
ApplyDoOne ==
    /\ pc = "call" /\ call.fn = "do_one"
    /\ outcome' = command_do_one(call.command, call.resp)
    /\ pc' = "applied"
    /\ UNCHANGED <<cli_vars, inputs, usage_info, arg_concurrency, pool_vars,
                   fs_vars, error, call, now, run_dirs>>

\* C18: the worker of every batch command gives an error exactly when the
\* client call raised or the status is >= 400: the raw body, the status and
\* an error for a status >= 400; body, status and no error below 400; and
\* (empty body, 0, error) for a client call that raised.
C18_WorkerOutcome ==
    Applied("do_one") =>
        LET r == call.resp IN
        /\ (outcome.error # None) <=> (r.raises \/ r.status_code >= 400)
        /\ (~r.raises /\ r.status_code >= 400) =>
              (outcome.body = r.data /\ outcome.status_code = r.status_code)
        /\ (~r.raises /\ r.status_code < 400) =>
              outcome = [body |-> r.data, status_code |-> r.status_code, error |-> None]
        /\ r.raises => (outcome.body = "" /\ outcome.status_code = 0)

\* A status of exactly 400 with a body: an error that keeps the body.
C18_Witness ==
    /\ Applied("do_one") /\ ~call.resp.raises /\ call.resp.status_code = 400
    /\ outcome.error # None /\ outcome.body = "page"


\* ------------------------------------------ read_input_file on a file's text
\* The longest file text, in characters.
MaxChars == 5

\* The characters of a file; a text and a line are sequences of them.
Whitespace == {" ", "\t", "\n"}
Chars == {"a", "b"} \cup Whitespace

RECURSIVE FileTextsUpTo(_)
FileTextsUpTo(n) ==
    IF n = 0 THEN {<<>>}
    ELSE LET shorter == FileTextsUpTo(n - 1) IN
         shorter \cup {Append(t, c) : t \in {x \in shorter : Len(x) = n - 1}, c \in Chars}

\* Iterating a text file: each line ends with its newline, the last line
\* ends where the text ends; cur is the line read so far.
RECURSIVE file_lines(_, _)
file_lines(text, cur) ==
    IF text = <<>>
    THEN IF cur = <<>> THEN <<>> ELSE <<cur>>
    ELSE IF Head(text) = "\n"
         THEN <<Append(cur, "\n")>> \o file_lines(Tail(text), <<>>)
         ELSE file_lines(Tail(text), Append(cur, Head(text)))

RECURSIVE lstrip(_)
lstrip(line) ==
    IF line # <<>> /\ Head(line) \in Whitespace THEN lstrip(Tail(line)) ELSE line

RECURSIVE rstrip(_)
rstrip(line) ==
    IF line # <<>> /\ line[Len(line)] \in Whitespace
    THEN rstrip(SubSeq(line, 1, Len(line) - 1))
    ELSE line

\* A strip that trims the front of the line only.
strip_leading_only(line) == lstrip(line)

\* str.strip()
strip(line) == rstrip(lstrip(line))

\* [line.strip() for line in f if line.strip()]
RECURSIVE stripped_lines(_)
stripped_lines(lines) ==
    IF lines = <<>> THEN <<>>
    ELSE IF strip(Head(lines)) # <<>>
         THEN <<strip(Head(lines))>> \o stripped_lines(Tail(lines))
         ELSE stripped_lines(Tail(lines))

\* read_input_file(path) on a file holding text: the ValueError of a file
\* with no non-empty line, or the list of lines.
read_input_file_text(text) ==
    LET lines == stripped_lines(file_lines(text, <<>>)) IN
    IF lines = <<>>
    THEN [raised |-> "ValueError", lines |-> <<>>]
    ELSE [raised |-> None, lines |-> lines]

ReadCalls == [fn : {"read_input_file"}, text : FileTextsUpTo(MaxChars)]

ApplyReadInputFile ==
    /\ pc = "call" /\ call.fn = "read_input_file"
    /\ outcome' = read_input_file_text(call.text)
    /\ pc' = "applied"
    /\ UNCHANGED <<cli_vars, inputs, usage_info, arg_concurrency, pool_vars,
                   fs_vars, error, call, now, run_dirs>>

\* The lines of a text by position: a line starts at the first character and
\* after each newline, and runs up to the character before the next newline.
LineStarts(t) == {i \in 1 .. Len(t) : i = 1 \/ t[i - 1] = "\n"}

LineEnd(t, s) ==
    CHOOSE e \in (s - 1) .. Len(t) :
        /\ \A k \in s .. e : t[k] # "\n"
        /\ e = Len(t) \/ t[e + 1] = "\n"

\* The positions of the line starting at s that hold no whitespace.
Ink(t, s) == {k \in s .. LineEnd(t, s) : t[k] \notin Whitespace}

First(S) == CHOOSE x \in S : \A y \in S : x <= y
Last(S) == CHOOSE x \in S : \A y \in S : y <= x

Trimmed(t, s) == SubSeq(t, First(Ink(t, s)), Last(Ink(t, s)))

KeptStarts(t) == {s \in LineStarts(t) : Ink(t, s) # {}}

\* The trimmed non-empty lines of t, in file order.
TrimmedLines(t) ==
    [j \in 1 .. Cardinality(KeptStarts(t)) |->
        Trimmed(t, CHOOSE s \in KeptStarts(t) :
                       Cardinality({x \in KeptStarts(t) : x < s}) = j - 1)]

\* C19: read_input_file returns exactly the lines that are non-empty after
\* trimming, each trimmed, in file order, so that no element is empty or
\* starts or ends with whitespace; it raises the empty-input error exactly
\* when the file holds no such line.
C19_ReadInputFile ==
    Applied("read_input_file") =>
        LET t == call.text IN
        /\ (outcome.raised = "ValueError") <=> (\A k \in 1 .. Len(t) : t[k] \in Whitespace)
        /\ outcome.raised = None =>
              /\ outcome.lines = TrimmedLines(t)
              /\ \A j \in 1 .. Len(outcome.lines) :
                    LET l == outcome.lines[j] IN
                    /\ l # <<>>
                    /\ l[1] \notin Whitespace
                    /\ l[Len(l)] \notin Whitespace

\* A padded line, a blank line and a last line without newline.
C19_Witness ==
    /\ Applied("read_input_file")
    /\ call.text = <<" ", "a", "\n", "\n", "b">>
    /\ outcome.raised = None
    /\ outcome.lines = << <<"a">>, <<"b">> >>


\* ------------------------------------------------ parse_usage on a body
\* The most keys of a usage document.
MaxKeys == 2

\* client.py: the default usage and the largest plan limit accepted.
DefaultMaxConcurrency == 5
DefaultCredits == 0
MaxConcurrencyField == 10000

ConcurrencyAliases ==
    <<"max_concurrency", "max_concurrent_requests", "concurrent_request_limit",
      "concurrency", "concurrent_requests">>

CreditAliases ==
    <<"credits", "available_credits", "credit_balance", "balance",
      "credits_remaining", "remaining_credits">>

\* A JSON value as json.loads gives it. A number is kept as twice its value,
\* so that halves are values; true and false are Python's True and False,
\* which compare and convert as 1 and 0. A number too large for a float
\* (1e400) is the float inf, and the literal NaN is the float nan.
JsonNull == [type |-> "null", twice |-> 0]
JsonTrue == [type |-> "bool", twice |-> 2]
JsonFalse == [type |-> "bool", twice |-> 0]
JsonInfinity == [type |-> "inf", twice |-> 0]
JsonNaN == [type |-> "nan", twice |-> 0]
JsonNumbers ==
    [type : {"number"},
     twice : {-2, 0, 1, 4, 5, 2 * MaxConcurrencyField,
              2 * MaxConcurrencyField + 1, 2 * MaxConcurrencyField + 2}]
JsonValues ==
    {JsonNull, JsonTrue, JsonFalse, JsonInfinity, JsonNaN,
     [type |-> "string", twice |-> 0], [type |-> "array", twice |-> 0]}
        \cup JsonNumbers

\* The JSON objects with at most MaxKeys of the given keys.
DocsOver(keys) ==
    UNION {[K -> JsonValues] : K \in {S \in SUBSET keys : Cardinality(S) <= MaxKeys}}

\* m.get(key)
Get(m, key) == IF key \in DOMAIN m THEN m[key] ELSE JsonNull

\* isinstance(v, (int, float)): bool is a subclass of int, inf and nan are
\* floats.
IsIntOrFloat(v) == v.type \in {"number", "bool", "inf", "nan"}

\* v > n, v <= n and v >= n for an int or float v: every comparison with
\* nan is false.
Above(v, n) == v.type = "inf" \/ (v.type \in {"number", "bool"} /\ v.twice > 2 * n)
AtMost(v, n) == v.type \in {"number", "bool"} /\ v.twice <= 2 * n
AtLeast(v, n) == v.type = "inf" \/ (v.type \in {"number", "bool"} /\ v.twice >= 2 * n)

\* int(v): truncation towards zero.
IntOf(v) == IF v.twice >= 0 THEN v.twice \div 2 ELSE -((-v.twice) \div 2)

\* The exception of int(v), if any.
IntRaises(v) ==
    IF v.type = "inf" THEN "OverflowError"
    ELSE IF v.type = "nan" THEN "ValueError"
    ELSE None

\* The loop of lines 378-388 from the alias at position i on.
RECURSIVE concurrency_loop(_, _)
concurrency_loop(m, i) ==
    IF i > Len(ConcurrencyAliases) THEN DefaultMaxConcurrency
    ELSE LET v == Get(m, ConcurrencyAliases[i]) IN
         IF /\ v # JsonNull
            /\ IsIntOrFloat(v)
            /\ Above(v, 0) /\ AtMost(v, MaxConcurrencyField)
         THEN IntOf(v)
         ELSE concurrency_loop(m, i + 1)

\* The loop of lines 389-400 from the alias at position i on.
RECURSIVE credits_loop(_, _)
credits_loop(m, i) ==
    IF i > Len(CreditAliases)
    THEN [found |-> FALSE, raised |-> None, credits |-> DefaultCredits]
    ELSE LET v == Get(m, CreditAliases[i]) IN
         IF v # JsonNull /\ IsIntOrFloat(v) /\ AtLeast(v, 0)
         THEN IF IntRaises(v) # None
              THEN [found |-> TRUE, raised |-> IntRaises(v), credits |-> DefaultCredits]
              ELSE [found |-> TRUE, raised |-> None, credits |-> IntOf(v)]
         ELSE credits_loop(m, i + 1)

\* Lines 401-406: the difference of the two plan fields.
credits_fallback(m) ==
    LET max_credit == Get(m, "max_api_credit")
        used_credit == Get(m, "used_api_credit")
    IN  IF ~(IsIntOrFloat(max_credit) /\ IsIntOrFloat(used_credit))
        THEN [raised |-> None, credits |-> DefaultCredits]
        ELSE IF IntRaises(max_credit) # None
        THEN [raised |-> IntRaises(max_credit), credits |-> DefaultCredits]
        ELSE IF IntRaises(used_credit) # None
        THEN [raised |-> IntRaises(used_credit), credits |-> DefaultCredits]
        ELSE IF IntOf(max_credit) - IntOf(used_credit) >= 0
        THEN [raised |-> None, credits |-> IntOf(max_credit) - IntOf(used_credit)]
        ELSE [raised |-> None, credits |-> DefaultCredits]

\* What parse_usage gives when it stops on the exception e.
UsageRaised(e) ==
    [raised |-> e, max_concurrency |-> DefaultMaxConcurrency, credits |-> DefaultCredits]

\* parse_usage(body). json.loads raises JSONDecodeError, which is caught,
\* for a text that is no JSON, and UnicodeDecodeError, which is not, for
\* bytes that are no text; m.get on a JSON value that is no object raises.
parse_usage(body) ==
    IF body.kind = "not_json" THEN UsageRaised(None)
    ELSE IF body.kind = "not_text" THEN UsageRaised("UnicodeDecodeError")
    ELSE IF body.kind = "not_object" THEN UsageRaised("AttributeError")
    ELSE LET found == credits_loop(body.m, 1)
             rest == credits_fallback(body.m)
         IN  IF found.found
             THEN IF found.raised # None THEN UsageRaised(found.raised)
                  ELSE [raised |-> None,
                        max_concurrency |-> concurrency_loop(body.m, 1),
                        credits |-> found.credits]
             ELSE IF rest.raised # None THEN UsageRaised(rest.raised)
                  ELSE [raised |-> None,
                        max_concurrency |-> concurrency_loop(body.m, 1),
                        credits |-> rest.credits]

Range(seq) == {seq[i] : i \in DOMAIN seq}

CreditFields == Range(CreditAliases) \cup {"max_api_credit", "used_api_credit"}

\* The bodies of a usage response: no text, no JSON, a JSON value that is no
\* object, or an object with fields of one of the two chains.
UsageBodies ==
    [kind : {"not_json", "not_text", "not_object"}, m : {<<>>}]
        \cup [kind : {"object"}, m : DocsOver(Range(ConcurrencyAliases))]
        \cup [kind : {"object"}, m : DocsOver(CreditFields)]

ParseCalls == [fn : {"parse_usage"}, body : UsageBodies]

ApplyParseUsage ==
    /\ pc = "call" /\ call.fn = "parse_usage"
    /\ outcome' = parse_usage(call.body)
    /\ pc' = "applied"
    /\ UNCHANGED <<cli_vars, inputs, usage_info, arg_concurrency, pool_vars,
                   fs_vars, error, call, now, run_dirs>>

\* An alias qualifies when it is present with a JSON number in (0, 10000].
Qualifies(m, key) ==
    /\ key \in DOMAIN m
    /\ m[key].type = "number"
    /\ 0 < m[key].twice /\ m[key].twice <= 2 * MaxConcurrencyField

QualifyingAliases(m) ==
    {i \in DOMAIN ConcurrencyAliases : Qualifies(m, ConcurrencyAliases[i])}

\* C20: parse_usage sets max_concurrency to the value (as an integer) of the
\* first alias in priority order that is present, numeric and in (0, 10000],
\* skipping every alias that is absent, non-numeric or out of range, and to 5
\* when no alias qualifies.
C20_ConcurrencyAlias ==
    (Applied("parse_usage") /\ call.body.kind = "object") =>
        LET m == call.body.m
            q == QualifyingAliases(m)
        IN  /\ outcome.raised = None
            /\ outcome.max_concurrency =
                  IF q = {} THEN DefaultMaxConcurrency
                  ELSE IntOf(m[ConcurrencyAliases[First(q)]])


\* A credits alias qualifies when it is present with a JSON number >= 0.
CreditQualifies(m, key) ==
    /\ key \in DOMAIN m
    /\ m[key].type \in {"number", "inf"}
    /\ AtLeast(m[key], 0)

QualifyingCreditAliases(m) ==
    {i \in DOMAIN CreditAliases : CreditQualifies(m, CreditAliases[i])}

\* max_api_credit - used_api_credit as an integer when both are JSON numbers
\* and the difference is >= 0, and 0 otherwise.
FallbackDifference(m) ==
    LET max_credit == Get(m, "max_api_credit")
        used_credit == Get(m, "used_api_credit")
    IN  IF /\ max_credit.type = "number" /\ used_credit.type = "number"
           /\ max_credit.twice - used_credit.twice >= 0
        THEN (max_credit.twice - used_credit.twice) \div 2
        ELSE DefaultCredits

\* C21: parse_usage sets credits to the value (as an integer) of the first
\* alias in priority order that is present, numeric and >= 0; with no such
\* alias, to max_api_credit - used_api_credit when both are numeric and the
\* difference is >= 0; and to 0 otherwise.
C21_CreditsAlias ==
    (Applied("parse_usage") /\ call.body.kind = "object") =>
        LET m == call.body.m
            q == QualifyingCreditAliases(m)
        IN  /\ outcome.raised = None
            /\ IF q = {} THEN outcome.credits = FallbackDifference(m)
               ELSE /\ m[CreditAliases[First(q)]].type = "number"
                    /\ outcome.credits = IntOf(m[CreditAliases[First(q)]])


\* The default usage, returned without an exception.
DefaultUsage == UsageRaised(None)

\* C22: for every body that cannot be parsed as JSON, parse_usage returns
\* the default {max_concurrency: 5, credits: 0} and does not fail.
C22_MalformedBody ==
    (Applied("parse_usage") /\ call.body.kind \in {"not_json", "not_text"}) =>
        outcome = DefaultUsage

\* C23: for every body, parse_usage returns a usage whose max_concurrency is
\* an integer in 1..10000 and whose credits is an integer >= 0.
C23_UsageRange ==
    Applied("parse_usage") =>
        /\ outcome.raised = None
        /\ outcome.max_concurrency \in 1 .. MaxConcurrencyField
        /\ outcome.credits \in Nat

\* The document without its fields that hold a boolean, a string, null or
\* an array.
NumbersOnly(m) ==
    [k \in {f \in DOMAIN m : m[f].type \notin {"bool", "string", "null", "array"}} |-> m[k]]

\* C29: a field whose value is a JSON boolean, string, null or array counts
\* for nothing: parse_usage gives what it gives for the document without
\* these fields, in the concurrency chain, the credits chain and the
\* fallback difference.
C29_OnlyNumbers ==
    (Applied("parse_usage") /\ call.body.kind = "object") =>
        outcome = parse_usage([kind |-> "object", m |-> NumbersOnly(call.body.m)])

\* C30: for a body that is valid JSON but no object, parse_usage returns
\* the defaults without raising.
C30_NotAnObject ==
    (Applied("parse_usage") /\ call.body.kind = "not_object") =>
        outcome = DefaultUsage


\* --------------------------------------------------- the usage fetch failing
\* The usage endpoint answered, and the command went on or failed.
UsageFetched == pc = "usage" /\ pc' # "usage"

\* C24: get_batch_usage fails exactly when the usage call raises or answers
\* a status other than 200, with the transport error or the status error and
\* with no usage parsed; without an API key the command never gets as far;
\* and a command that failed there has called no worker and written nothing.
C24_UsageFailure ==
    /\ [][UsageFetched =>
            LET resp == call'.resp IN
            /\ (pc' = "failed") <=> (resp.raises \/ resp.code # 200)
            /\ resp.raises => error' = "ConnectionError"
            /\ (~resp.raises /\ resp.code # 200) => error' = "RuntimeError"
            /\ (pc' = "failed") => usage_info' = NoUsage]_vars
    /\ [](~api_key => pc \in {"start", "failed"} /\ usage_info = NoUsage)
    /\ []((pc = "failed" /\ (~api_key \/ error \in {"ConnectionError", "RuntimeError"})) =>
            /\ calls = <<>> /\ futures = <<>> /\ results = <<>>
            /\ NoOutput)

\* The endpoint answered 500 and the command failed before any dispatch.
C24_Witness ==
    /\ pc = "failed" /\ error = "RuntimeError"
    /\ call.fn = "client.usage" /\ ~call.resp.raises /\ call.resp.code = 500
    /\ inputs # <<>> /\ calls = <<>>


\* ------------------------------------------------- run_batch with no inputs
\* C25: for an empty input sequence run_batch never invokes the worker; it
\* reports a failure or returns an empty sequence, never a non-empty one, and
\* it is never stuck: its one step is enabled until it has failed or returned.
C25_EmptyInputs ==
    (caller = "direct" /\ inputs = <<>>) =>
        /\ calls = <<>> /\ futures = <<>> /\ work_queue = <<>>
        /\ \/ pc = "run_batch" /\ ENABLED RunBatchEnter
           \/ pc = "failed" /\ error = "ValueError"
           \/ pc = "returned" /\ returned = <<>>

\* run_batch was called with no inputs and has raised.
C25_Witness ==
    /\ caller = "direct" /\ inputs = <<>>
    /\ pc = "failed" /\ error = "ValueError" /\ calls = <<>>


\* ------------------------------------------------------ a worker that raises
\* The inputs of a batch whose worker function may raise.
RaisingInputSeqs == UNION {[1 .. n -> Urls \cup {Boom}] : n \in 1 .. MaxInputs}

\* The command at line 311, about to call run_batch with a concurrency that
\* resolve_batch_concurrency can give.
InitRaise ==
    /\ pc = "run_batch" /\ caller = "scrape"
    /\ api_key = TRUE /\ headers_ok = TRUE /\ url_given = FALSE
    /\ user_concurrency = 0 /\ usage_info = NoUsage
    /\ inputs \in RaisingInputSeqs
    /\ arg_concurrency \in 1 .. Len(inputs)
    /\ PoolIdle /\ NoOutput /\ error = None /\ AuxIdle

NextRaise ==
    \/ RunBatchEnter
    \/ Submit
    \/ WorkerStart
    \/ WorkerFinish
    \/ Collect
    \/ RunBatchReturn
    \/ RunBatchPropagate
    \/ WriteBatchOutput
    \/ ReportDone

SpecRaise == InitRaise /\ [][NextRaise]_vars

\* fut.result() has raised the exception of a worker call.
WorkerRaised == error = "WorkerError"

\* C26: when a worker call raises, run_batch returns no result list; every
\* other submitted call still runs to completion, none is cancelled, and only
\* then does the exception leave run_batch; no output file is written.
C26_WorkerRaises ==
    /\ WorkerRaised =>
          /\ pc \in {"unwind", "failed"}
          /\ returned = <<>>
          /\ NoOutput
          /\ \A i \in 1 .. N : futures[i].state # "unsubmitted"
    /\ (WorkerRaised /\ pc = "failed") =>
          /\ \A i \in 1 .. N : calls[i] = 1 /\ futures[i].state \in {"finished", "raised"}
          /\ work_queue = <<>>
    /\ (\E i \in 1 .. Len(futures) : futures[i].state = "raised" /\ i \in yielded) => WorkerRaised

\* The first input raised while a later call was still waiting in the queue;
\* that call ran before the exception left run_batch.
C26_Witness ==
    /\ WorkerRaised /\ pc = "failed"
    /\ N >= 2 /\ inputs[1] = Boom /\ inputs[N] = "ok"
    /\ max_workers = 1 /\ yielded = {1}
    /\ calls[N] = 1 /\ futures[N].state = "finished"

\* -------------------------------------------- specifications of single calls
\* One function of batch.py, cli.py or client.py called on its own.
InitFn ==
    /\ pc = "call" /\ caller = "function"
    /\ CommandIdle /\ NoOutput
    /\ outcome = Pending /\ now = 0 /\ run_dirs = <<>>
    /\ \/ call \in ValidateCalls
       \/ call \in ResolveCalls
       \/ call \in WorkerCalls
       \/ call \in ReadCalls
       \/ call \in ParseCalls

NextFn ==
    \/ ApplyValidate
    \/ ApplyResolve
    \/ ApplyDoOne
    \/ ApplyReadInputFile
    \/ ApplyParseUsage

SpecFn == InitFn /\ [][NextFn]_vars

====
